---- MODULE Spec2Model ----
(***************************************************************************)
(* Model of src/src/proxy.ts: the proxy that translates the Anthropic      *)
(* Messages API to an OpenAI/Azure chat-completions backend.  One inbound  *)
(* request is followed from createProxy's request callback through         *)
(* handleStreaming or handleNonStreaming to the end of its response.       *)
(*                                                                         *)
(* The backend byte stream is a sequence of tokens: the SSE data marker    *)
(* "data: ", one payload text, and the newline.  A chunk is any run of     *)
(* tokens, so a chunk may stop in the middle of a line; a payload whose    *)
(* text holds a two-byte UTF-8 character is two tokens, the bytes before   *)
(* and after the cut inside that character.  `events` is the               *)
(* sequence of SSE events accepted by res.write before res.end;            *)
(* `lateWrites` counts the res.write calls made after res.end, which       *)
(* Node rejects (ERR_STREAM_WRITE_AFTER_END) and never sends.              *)
(***************************************************************************)
EXTENDS Integers, Sequences, FiniteSets, TLC

\* ---------------------------------------------------------------- bounds
\* Complete backend lines received in one stream.
MaxLines == 4
\* Chunks of the non-streaming backend body.
MaxBodyChunks == 2

\* ------------------------------------------------- backend stream events
\* A parsed backend SSE payload (an OpenAI chat.completion.chunk).
\* choices: number of entries of data.choices; the other fields are those of
\* choices[0] and of data.usage ("" and << >> stand for an absent field).
NoEvent ==
  [choices |-> 0, finish_reason |-> "", content |-> "", tool_calls |-> << >>,
   usage |-> << >>]

TextDelta(t) == [NoEvent EXCEPT !.choices = 1, !.content = t]

ToolFrag(i, id, name, args) ==
  [index |-> i, id |-> id, name |-> name, arguments |-> args]

ToolDelta(frags) == [NoEvent EXCEPT !.choices = 1, !.tool_calls = frags]

Finish(reason) == [NoEvent EXCEPT !.choices = 1, !.finish_reason = reason]

Usage(p, c) == << [prompt_tokens |-> p, completion_tokens |-> c] >>


\* ------------------------------------------------------ bytes on the wire
Tok(txt, val) == [txt |-> txt, val |-> val]
Marker == Tok("data: ", NoEvent)
NL == Tok("\n", NoEvent)
Json(ev) == Tok("json", ev)
DoneTok == Tok("[DONE]", NoEvent)
BadTok == Tok("{bad", NoEvent)

\* A data line (without its newline) carrying one backend event.
DataLine(ev) == << Marker, Json(ev) >>

\* Texts that hold a two-byte UTF-8 character ("caf" and an e with acute
\* accent, bytes C3 A9), each with what it becomes when the two bytes are
\* decoded one without the other: two replacement characters U+FFFD.
MultiByte == { << "caf<C3 A9>", "caf<FFFD><FFFD>" >> }

HasMultiByte(text) == \E p \in MultiByte : p[1] = text
Garble(text) == IF HasMultiByte(text) THEN (CHOOSE p \in MultiByte : p[1] = text)[2] ELSE text

\* The bytes of a JSON text up to and including the first byte of its
\* two-byte character, and the bytes from the second byte on.
JsonHead(ev) == Tok("json-head", ev)
JsonTail(ev) == Tok("json-tail", ev)

\* The UTF-8 bytes of a line of text.
RECURSIVE Utf8(_)
Utf8(line) ==
  IF line = << >> THEN << >>
  ELSE IF Head(line).txt = "json" /\ HasMultiByte(Head(line).val.content)
  THEN << JsonHead(Head(line).val), JsonTail(Head(line).val) >> \o Utf8(Tail(line))
  ELSE << Head(line) >> \o Utf8(Tail(line))

\* chunk.toString(): the chunk decoded as UTF-8 on its own.  The two bytes
\* of a character decode to the character when the chunk holds both; a
\* chunk that holds only one of them decodes it to U+FFFD.
RECURSIVE ChunkToString(_)
ChunkToString(chunk) ==
  IF chunk = << >> THEN << >>
  ELSE IF Head(chunk).txt = "json-head"
  THEN IF Len(chunk) >= 2 /\ chunk[2] = JsonTail(Head(chunk).val)
       THEN << Json(Head(chunk).val) >> \o ChunkToString(SubSeq(chunk, 3, Len(chunk)))
       ELSE << Tok("json-head<FFFD>", Head(chunk).val) >> \o ChunkToString(Tail(chunk))
  ELSE IF Head(chunk).txt = "json-tail"
  THEN << Tok("<FFFD>json-tail", Head(chunk).val) >> \o ChunkToString(Tail(chunk))
  ELSE << Head(chunk) >> \o ChunkToString(Tail(chunk))

\* The blank line that separates SSE events.
BlankLine == << >>

\* A backend chat completion: data.choices and data.usage.
Choice(content, tool_calls, finish_reason) ==
  [content |-> content, tool_calls |-> tool_calls, finish_reason |-> finish_reason]

ToolCall(id, name, args) == [id |-> id, name |-> name, arguments |-> args]

Reply(choices, usage) == [choices |-> choices, usage |-> usage]

\* What the environment of one run may do: the lines (without their newline)
\* a streaming backend draws from, the replies a non-streaming backend draws
\* from, and whether the client may close its connection.
Scenarios ==
  { \* text and tool calls in every order
    [lines |-> { DataLine(TextDelta("Hel")),
                 DataLine(ToolDelta(<< ToolFrag(0, "call_1", "get_weather", "") >>)),
                 DataLine(ToolDelta(<< ToolFrag(0, "", "", "{bad json") >>)),
                 DataLine(ToolDelta(<< ToolFrag(1, "call_2", "f2", "{}") >>)),
                 DataLine(Finish("tool_calls")) },
     replies |-> { Reply(<< Choice("", << ToolCall("call_1", "get_weather",
                                                  "{ \"city\": \"Paris\" }") >>,
                                   "tool_calls") >>, << >>),
                   Reply(<< Choice("Hi", << ToolCall("call_1", "get_weather", "{bad json"),
                                            ToolCall("call_2", "f2", "") >>, "tool_calls"),
                            Choice("second", << >>, "stop") >>, Usage(0, 5)) },
     clientMayClose |-> FALSE],
    \* protocol noise and usage
    [lines |-> { << Marker, DoneTok >>, << Marker, BadTok >>,
                 DataLine([TextDelta("lo") EXCEPT !.usage = Usage(3, 7)]),
                 DataLine([NoEvent EXCEPT !.usage = Usage(3, 7)]),
                 DataLine([Finish("length") EXCEPT !.usage = Usage(3, 9)]) },
     replies |-> { Reply(<< >>, << >>),
                   Reply(<< Choice("Hello", << >>, "stop") >>, Usage(3, 7)) },
     clientMayClose |-> FALSE],
    \* text only, and a client that may go away
    [lines |-> { BlankLine, DataLine(TextDelta("Hel")), DataLine(TextDelta("lo")),
                 DataLine(Finish("stop")) },
     replies |-> { Reply(<< Choice("", << >>, "length") >>, << >>) },
     clientMayClose |-> TRUE],
    \* text with a two-byte character
    [lines |-> { DataLine(TextDelta("caf<C3 A9>")), DataLine(Finish("stop")) },
     replies |-> { Reply(<< Choice("caf<C3 A9>", << >>, "stop") >>, << >>) },
     clientMayClose |-> FALSE] }

\* The backend replies the model draws from.
BackendReplies == UNION { sc.replies : sc \in Scenarios }

Prefixes(s) == { SubSeq(s, 1, n) : n \in 0..Len(s) }

\* What may follow `buf` (the bytes of the unfinished line) up to and
\* including the newline.
Rests(lines, buf) ==
  { SubSeq(l \o << NL >>, Len(buf) + 1, Len(l) + 1) :
      l \in { m \in lines : Len(m) >= Len(buf) /\ SubSeq(m, 1, Len(buf)) = buf } }

\* The chunks a data event may carry when the bytes `buf` of a line were
\* sent: part of the current line, or its rest followed by one more
\* complete line.
Chunks(textLines, buf) ==
  LET lines == { Utf8(l) : l \in textLines }
  IN UNION { (Prefixes(r) \ { << >> }) \cup { r \o l \o << NL >> : l \in lines } :
               r \in Rests(lines, buf) }

\* ------------------------------------------------------------ SSE events
\* An event written to the client.  Fields an event type does not carry
\* hold the defaults of NoSse.
NoSse ==
  [type |-> "", index |-> -1, kind |-> "", text |-> "", id |-> "", name |-> "",
   input |-> "", stop_reason |-> "", output_tokens |-> -1, model |-> ""]

\* sseEvent('message_start', ...): the message envelope with zeroed usage.
MessageStart(model) ==
  [NoSse EXCEPT !.type = "message_start", !.model = model, !.output_tokens = 0]

TextBlockStart(i) ==
  [NoSse EXCEPT !.type = "content_block_start", !.index = i, !.kind = "text"]

TextBlockDelta(i, t) ==
  [NoSse EXCEPT !.type = "content_block_delta", !.index = i, !.kind = "text_delta",
                !.text = t]

\* content_block { type: 'tool_use', id, name, input: {} }
ToolBlockStart(i, id, name) ==
  [NoSse EXCEPT !.type = "content_block_start", !.index = i, !.kind = "tool_use",
                !.id = id, !.name = name, !.input = "{}"]

ToolBlockDelta(i, json) ==
  [NoSse EXCEPT !.type = "content_block_delta", !.index = i,
                !.kind = "input_json_delta", !.text = json]

ContentBlockStop(i) ==
  [NoSse EXCEPT !.type = "content_block_stop", !.index = i]

MessageDelta(reason, out) ==
  [NoSse EXCEPT !.type = "message_delta", !.stop_reason = reason,
                !.output_tokens = out]

MessageStop == [NoSse EXCEPT !.type = "message_stop"]

\* ------------------------------------------------------------------ state
VARIABLES
  pc,                \* where the request callback of createProxy stands
  req,               \* the inbound request
  res,               \* the http.ServerResponse: status, headers, end
  events,            \* SSE events accepted by res.write
  lateWrites,        \* res.write calls after res.end
  promise,           \* the promise of handleStreaming / handleNonStreaming
  uncaught,          \* the catch block of createProxy threw
  azure,             \* the backend request / response
  azureRequests,     \* https.request calls made for this inbound request
  wire,              \* complete backend lines received so far, as text (newest last)
  partial,           \* the bytes received of the line the backend has not finished
  buffer,            \* handleStreaming: let buffer
  textBlockStarted,  \* handleStreaming: let textBlockStarted
  currentBlockIndex, \* handleStreaming: let currentBlockIndex
  toolCalls,         \* handleStreaming: Map toolCalls, in insertion order
  toolBlocksStarted, \* handleStreaming: Set toolBlocksStarted
  inputTokens,       \* handleStreaming: let inputTokens
  outputTokens,      \* handleStreaming: let outputTokens
  body,              \* handleNonStreaming: let body
  clientGone,        \* the client closed its connection ('close' was dispatched)
  scenario,          \* what the backend and the client of this run may do
  deployments,       \* config.deployments: the backend deployment of each family
  openaiReq,         \* createProxy: const openaiReq, the request sent to the backend
  connections        \* two streaming requests served at the same time, each
                     \* with the variables of its own handleStreaming call

vars ==
  << pc, req, res, events, lateWrites, promise, uncaught, azure, azureRequests,
     wire, partial, buffer, textBlockStarted, currentBlockIndex, toolCalls,
     toolBlocksStarted, inputTokens, outputTokens, body, clientGone, scenario,
     deployments, openaiReq, connections >>

streamVars ==
  << buffer, textBlockStarted, currentBlockIndex, toolCalls, toolBlocksStarted,
     inputTokens, outputTokens >>

\* ---------------------------------------------------- http.ServerResponse
\* A response body: plain text, or the fields of the JSON object sent
\* ("" and << >> stand for an absent field).
NoBody == [text |-> "", status |-> "", error |-> "", message |-> << >>]

NoRes ==
  [status |-> 0, contentType |-> "", headersSent |-> FALSE, writableEnded |-> FALSE,
   body |-> NoBody]

\* res.writeHead(status, { 'Content-Type': ctype }) on a fresh response.
WriteHead(r, status, ctype) ==
  [r EXCEPT !.status = status, !.contentType = ctype, !.headersSent = TRUE]

\* res.end(body): a second end changes nothing.
End(r, b) ==
  IF r.writableEnded THEN r
  ELSE [r EXCEPT !.writableEnded = TRUE, !.headersSent = TRUE, !.body = b]

\* ------------------------------------------- the data callback's locals
\* The state the data callback of handleStreaming reads and writes, as one
\* record, so that the loop over the lines of a chunk is a recursion.
\* returned: the callback executed its `return` (after finish_reason).
Locals ==
  [buffer |-> buffer, textBlockStarted |-> textBlockStarted,
   currentBlockIndex |-> currentBlockIndex, toolCalls |-> toolCalls,
   toolBlocksStarted |-> toolBlocksStarted, inputTokens |-> inputTokens,
   outputTokens |-> outputTokens, events |-> events, lateWrites |-> lateWrites,
   writableEnded |-> res.writableEnded, promise |-> promise, returned |-> FALSE]

\* res.write(sseEvent(...)).
ResWrite(s, ev) ==
  IF s.writableEnded THEN [s EXCEPT !.lateWrites = @ + 1]
  ELSE [s EXCEPT !.events = Append(@, ev)]

\* resolve() / reject(): only the first settles the promise.
Settle(p, how) == IF p = "pending" THEN how ELSE p

\* ------------------------------------------------- handleStreaming: lines
\* buffer.split('\n'): the pieces between newlines, always at least one.
RECURSIVE SplitLines(_, _)
SplitLines(toks, cur) ==
  IF toks = << >> THEN << cur >>
  ELSE IF Head(toks) = NL THEN << cur >> \o SplitLines(Tail(toks), << >>)
       ELSE SplitLines(Tail(toks), Append(cur, Head(toks)))

\* line.startsWith('data: ')
StartsWithData(line) == Len(line) >= 1 /\ line[1] = Marker

\* line.slice(6).trim()
DataStr(line) == Tail(line)

\* JSON.parse(dataStr) succeeds on exactly one JSON text; U+FFFD inside a
\* JSON string is a character like any other.
JsonOk(dataStr) ==
  \/ Len(dataStr) = 1 /\ dataStr[1].txt = "json"
  \/ /\ Len(dataStr) = 2
     /\ dataStr[1].txt = "json-head<FFFD>" /\ dataStr[2].txt = "<FFFD>json-tail"
     /\ dataStr[1].val = dataStr[2].val

JsonParse(dataStr) ==
  IF Len(dataStr) = 1 THEN dataStr[1].val
  ELSE [dataStr[1].val EXCEPT !.content = Garble(@)]

\* Variant: the length limit is reported as max_tokens.
StopReasonWithLength(finish_reason) ==
  IF finish_reason = "tool_calls" THEN "tool_use"
  ELSE IF finish_reason = "length" THEN "max_tokens" ELSE "end_turn"

\* choice.finish_reason === 'tool_calls' ? 'tool_use' : 'end_turn'
StopReason(finish_reason) ==
  IF finish_reason = "tool_calls" THEN "tool_use" ELSE "end_turn"

\* toolCalls.has(tcIndex) / toolCalls.get(tcIndex)
HasToolCall(tcs, tcIndex) == \E k \in 1..Len(tcs) : tcs[k].index = tcIndex
ToolCallPos(tcs, tcIndex) == CHOOSE k \in 1..Len(tcs) : tcs[k].index = tcIndex

\* The block index the finish branch closes for an upstream tool call.
CloseIndex(cbi, tcIndex) == cbi + tcIndex + 1

\* Variant: the upstream index alone is the block index.
BlockIndexNoOffset(cbi, tcIndex) == tcIndex

\* The block index a tool-call fragment is started and streamed under.
BlockIndex(cbi, tcIndex) == cbi + tcIndex

\* for (const [tcIndex] of toolCalls) ...: the stops of the tool blocks.
RECURSIVE CloseToolBlocks(_, _)
CloseToolBlocks(s, k) ==
  IF k > Len(s.toolCalls) THEN s
  ELSE LET blockIndex == CloseIndex(s.currentBlockIndex, s.toolCalls[k].index)
       IN CloseToolBlocks(
            IF blockIndex \in s.toolBlocksStarted
            THEN ResWrite(s, ContentBlockStop(blockIndex)) ELSE s,
            k + 1)

\* Variant: the finish branch without its message_delta.
HandleFinishNoDelta(s, choice) ==
  LET s1 == IF s.textBlockStarted
            THEN ResWrite(s, ContentBlockStop(s.currentBlockIndex)) ELSE s
      s2 == CloseToolBlocks(s1, 1)
      s3 == ResWrite(s2, MessageStop)
  IN [s3 EXCEPT !.writableEnded = TRUE, !.promise = Settle(@, "resolved"),
                !.returned = TRUE]

\* if (choice.finish_reason) { ... res.end(); resolve(); return; }
HandleFinish(s, choice) ==
  LET s1 == IF s.textBlockStarted
            THEN ResWrite(s, ContentBlockStop(s.currentBlockIndex)) ELSE s
      s2 == CloseToolBlocks(s1, 1)
      s3 == ResWrite(s2, MessageDelta(StopReason(choice.finish_reason), s2.outputTokens))
      s4 == ResWrite(s3, MessageStop)
  IN [s4 EXCEPT !.writableEnded = TRUE, !.promise = Settle(@, "resolved"),
                !.returned = TRUE]

\* Variant: text deltas are not counted.
HandleTextNoCount(s, content) ==
  IF content = "" THEN s
  ELSE LET s1 == IF ~s.textBlockStarted
                 THEN [ResWrite(s, TextBlockStart(s.currentBlockIndex))
                         EXCEPT !.textBlockStarted = TRUE]
                 ELSE s
       IN ResWrite(s1, TextBlockDelta(s1.currentBlockIndex, content))

\* if (delta.content) { ... outputTokens++ }
HandleText(s, content) ==
  IF content = "" THEN s
  ELSE LET s1 == IF ~s.textBlockStarted
                 THEN [ResWrite(s, TextBlockStart(s.currentBlockIndex))
                         EXCEPT !.textBlockStarted = TRUE]
                 ELSE s
           s2 == ResWrite(s1, TextBlockDelta(s1.currentBlockIndex, content))
       IN [s2 EXCEPT !.outputTokens = @ + 1]

\* Variant: the text block is closed without advancing currentBlockIndex.
CloseTextKeepIndex(s) ==
  IF s.textBlockStarted /\ s.toolBlocksStarted = {}
  THEN [ResWrite(s, ContentBlockStop(s.currentBlockIndex))
          EXCEPT !.textBlockStarted = FALSE]
  ELSE s

\* if (textBlockStarted && !toolBlocksStarted.size) { stop; index++; }
CloseText(s) ==
  IF s.textBlockStarted /\ s.toolBlocksStarted = {}
  THEN [ResWrite(s, ContentBlockStop(s.currentBlockIndex))
          EXCEPT !.currentBlockIndex = @ + 1, !.textBlockStarted = FALSE]
  ELSE s

\* The body of `for (const tc of delta.tool_calls)` for one fragment.
HandleToolFrag(s, tc) ==
  LET tcIndex == tc.index
      blockIndex == BlockIndex(s.currentBlockIndex, tcIndex)
      tcs0 == IF HasToolCall(s.toolCalls, tcIndex) THEN s.toolCalls
              ELSE Append(s.toolCalls,
                          [index |-> tcIndex, id |-> tc.id, name |-> "", arguments |-> ""])
      k == ToolCallPos(tcs0, tcIndex)
      toolCall == [tcs0[k] EXCEPT
                     !.id = IF tc.id # "" THEN tc.id ELSE @,
                     !.name = IF tc.name # "" THEN tc.name ELSE @,
                     !.arguments = IF tc.arguments # "" THEN @ \o tc.arguments ELSE @]
      s1 == [s EXCEPT !.toolCalls = [tcs0 EXCEPT ![k] = toolCall]]
      s2 == IF blockIndex \notin s1.toolBlocksStarted /\ toolCall.name # ""
            THEN [ResWrite(s1, ToolBlockStart(blockIndex, toolCall.id, toolCall.name))
                    EXCEPT !.toolBlocksStarted = @ \cup { blockIndex }]
            ELSE s1
  IN IF tc.arguments # "" /\ blockIndex \in s2.toolBlocksStarted
     THEN ResWrite(s2, ToolBlockDelta(blockIndex, tc.arguments))
     ELSE s2

RECURSIVE HandleToolFrags(_, _)
HandleToolFrags(s, frags) ==
  IF frags = << >> THEN s
  ELSE HandleToolFrags(HandleToolFrag(s, Head(frags)), Tail(frags))

\* if (delta.tool_calls) { close the text block; for (const tc of ...) }
HandleToolCalls(s, tool_calls) ==
  IF tool_calls = << >> THEN s
  ELSE HandleToolFrags(CloseText(s), tool_calls)

\* if (data.usage) { inputTokens = ... || inputTokens; outputTokens = ... }
HandleUsage(s, usage) ==
  IF usage = << >> THEN s
  ELSE [s EXCEPT
          !.inputTokens = IF usage[1].prompt_tokens # 0
                          THEN usage[1].prompt_tokens ELSE @,
          !.outputTokens = IF usage[1].completion_tokens # 0
                           THEN usage[1].completion_tokens ELSE @]

\* The try block for one parsed payload.
HandleData(s, data) ==
  IF data.choices = 0 THEN s
  ELSE IF data.finish_reason # "" THEN HandleFinish(s, data)
  ELSE HandleUsage(HandleToolCalls(HandleText(s, data.content), data.tool_calls),
                   data.usage)

\* Variant: the [DONE] sentinel ends the response.
HandleLineDoneEnds(s, line) ==
  IF ~StartsWithData(line) THEN s
  ELSE IF DataStr(line) = << DoneTok >>
  THEN [s EXCEPT !.writableEnded = TRUE, !.promise = Settle(@, "resolved"),
                 !.returned = TRUE]
  ELSE IF ~JsonOk(DataStr(line)) THEN s
  ELSE HandleData(s, JsonParse(DataStr(line)))

\* One iteration of `for (const line of lines)`.
HandleLine(s, line) ==
  IF ~StartsWithData(line) THEN s
  ELSE IF DataStr(line) = << DoneTok >> THEN s
  ELSE IF ~JsonOk(DataStr(line)) THEN s
  ELSE HandleData(s, JsonParse(DataStr(line)))

\* for (const line of lines) { ... }, left by the `return` of the finish branch.
RECURSIVE HandleLines(_, _)
HandleLines(s, lines) ==
  IF lines = << >> \/ s.returned THEN s
  ELSE HandleLines(HandleLine(s, Head(lines)), Tail(lines))

\* azureRes.on('data', chunk => { ... })
DataCallback(s, chunk) ==
  LET pieces == SplitLines(s.buffer \o ChunkToString(chunk), << >>)
      lines == SubSeq(pieces, 1, Len(pieces) - 1)
  IN HandleLines([s EXCEPT !.buffer = pieces[Len(pieces)]], lines)

\* ------------------------------------------------- handleNonStreaming
\* A chunk of the backend body: a whole JSON text (part 0), its first or
\* second half (part 1, 2), the halves on either side of a cut inside a
\* two-byte character (part 3, 4), or text that is not JSON.
BodyTok(txt, part, val) == [txt |-> txt, part |-> part, val |-> val]

\* body += chunk.toString(): two halves of one JSON text make the whole
\* text; halves cut inside a character are each decoded on their own and
\* make the text with U+FFFD U+FFFD in place of the character.
Concat(b, chunk) ==
  IF /\ Len(b) >= 1
     /\ b[Len(b)].txt = "json" /\ b[Len(b)].part = 1
     /\ chunk.txt = "json" /\ chunk.part = 2 /\ chunk.val = b[Len(b)].val
  THEN [b EXCEPT ![Len(b)] = BodyTok("json", 0, chunk.val)]
  ELSE IF /\ Len(b) >= 1
          /\ b[Len(b)].txt = "json" /\ b[Len(b)].part = 3
          /\ chunk.txt = "json" /\ chunk.part = 4 /\ chunk.val = b[Len(b)].val
  THEN [b EXCEPT ![Len(b)] = BodyTok("json<FFFD><FFFD>", 0, chunk.val)]
  ELSE Append(b, chunk)

\* JSON.parse(body) succeeds on exactly one whole JSON text.
BodyOk(b) ==
  Len(b) = 1 /\ b[1].txt \in { "json", "json<FFFD><FFFD>" } /\ b[1].part = 0

\* const data = JSON.parse(body): val is the reply the backend sent.
BodyParse(b) ==
  IF b[1].txt = "json" THEN b[1].val
  ELSE [b[1].val EXCEPT
          !.choices = [k \in 1..Len(b[1].val.choices) |->
                         [b[1].val.choices[k] EXCEPT !.content = Garble(@)]]]

\* The argument texts that are valid JSON, with the value each parses to
\* (written in canonical form).
ValidJson ==
  { << "{}", "{}" >>, << "{ \"city\": \"Paris\" }", "{\"city\":\"Paris\"}" >>,
    << "{\"city\":\"Paris\"}", "{\"city\":\"Paris\"}" >> }

IsJson(text) == \E p \in ValidJson : p[1] = text
JsonValue(text) == (CHOOSE p \in ValidJson : p[1] = text)[2]

\* Variant: arguments that do not parse are passed on as they are.
ParseInputRaw(arguments) ==
  LET text == IF arguments = "" THEN "{}" ELSE arguments
  IN IF IsJson(text) THEN JsonValue(text) ELSE arguments

\* try { input = JSON.parse(tc.function.arguments || '{}') } catch { input = {} }
ParseInput(arguments) ==
  LET text == IF arguments = "" THEN "{}" ELSE arguments
  IN IF IsJson(text) THEN JsonValue(text) ELSE "{}"

\* A content block of the Anthropic message.
TextBlock(t) == [type |-> "text", text |-> t, id |-> "", name |-> "", input |-> ""]
ToolUseBlock(tc) ==
  [type |-> "tool_use", text |-> "", id |-> tc.id, name |-> tc.name,
   input |-> ParseInput(tc.arguments)]

\* for (const tc of choice.message.tool_calls) content.push({ type: 'tool_use', ... })
RECURSIVE ToolUseBlocks(_)
ToolUseBlocks(tcs) ==
  IF tcs = << >> THEN << >>
  ELSE << ToolUseBlock(Head(tcs)) >> \o ToolUseBlocks(Tail(tcs))

\* const content = []; text block if any, then the tool_use blocks.
Content(choice) ==
  (IF choice.content # "" THEN << TextBlock(choice.content) >> ELSE << >>)
    \o ToolUseBlocks(choice.tool_calls)

\* const response = { ... }
Response(data, model) ==
  LET choice == data.choices[1]
  IN [content |-> Content(choice), model |-> model,
      stop_reason |-> StopReason(choice.finish_reason),
      input_tokens |-> IF data.usage = << >> THEN 0 ELSE data.usage[1].prompt_tokens,
      output_tokens |-> IF data.usage = << >> THEN 0
                        ELSE data.usage[1].completion_tokens]

\* JSON.stringify({ error: message })
ErrorBody(message) == [NoBody EXCEPT !.error = message]

\* Variant: no check for a missing first choice.
NonStreamingResultNoCheck(r, b, model) ==
  IF ~BodyOk(b)
  THEN End(WriteHead(r, 500, "application/json"), ErrorBody("SyntaxError"))
  ELSE End(WriteHead(r, 200, "application/json"),
           [NoBody EXCEPT !.message =
              IF BodyParse(b).choices = << >> THEN << >>
              ELSE << Response(BodyParse(b), model) >>])

\* The try/catch of azureRes.on('end') in handleNonStreaming: the response
\* the client gets for the body received.
NonStreamingResult(r, b, model) ==
  IF ~BodyOk(b)
  THEN End(WriteHead(r, 500, "application/json"), ErrorBody("SyntaxError"))
  ELSE IF BodyParse(b).choices = << >>
  THEN End(WriteHead(r, 500, "application/json"), ErrorBody("No response from Azure"))
  ELSE End(WriteHead(r, 200, "application/json"),
           [NoBody EXCEPT !.message = << Response(BodyParse(b), model) >>])

\* ------------------------------------------------------------ createProxy
\* catch (error) { res.writeHead(500, ...); res.end(...) }: writeHead throws
\* ERR_HTTP_HEADERS_SENT when the head was already sent.
CatchThrows(r) == r.headersSent
Catch(r, message) ==
  IF CatchThrows(r) THEN r
  ELSE End(WriteHead(r, 500, "application/json"), ErrorBody(message))

\* String.prototype.includes: sub occurs in s as a run of characters.
Includes(s, sub) ==
  \E i \in 1..(Len(s) - Len(sub) + 1) : SubSeq(s, i, i + Len(sub) - 1) = sub

\* req.url?.includes('/messages')
IncludesMessages(url) == Includes(url, "/messages")

\* Variant: haiku is looked for before opus.
mapModelHaikuFirst(model, deps) ==
  IF Includes(model, "haiku") THEN deps.haiku
  ELSE IF Includes(model, "opus") THEN deps.opus
  ELSE deps.sonnet

\* function mapModel(model, config): the deployment of the model's family.
mapModel(model, deps) ==
  IF Includes(model, "opus") THEN deps.opus
  ELSE IF Includes(model, "haiku") THEN deps.haiku
  ELSE deps.sonnet

\* An optional field of a JSON object is << >> when it is absent and
\* << v >> when it holds v.
\* An inbound message: its content is a string or a sequence of blocks.
StringContent(text) == [isString |-> TRUE, text |-> text, blocks |-> << >>]
BlockContent(blocks) == [isString |-> FALSE, text |-> "", blocks |-> blocks]
Block(type, text) == [type |-> type, text |-> text]
Message(role, content) == [role |-> role, content |-> content]

\* .filter((block) => block.type === 'text').map((block) => block.text || '')
RECURSIVE Texts(_)
Texts(blocks) ==
  IF blocks = << >> THEN << >>
  ELSE (IF Head(blocks).type = "text"
        THEN << IF Head(blocks).text = << >> THEN "" ELSE Head(blocks).text[1] >>
        ELSE << >>)
         \o Texts(Tail(blocks))

\* Array.prototype.join
RECURSIVE Join(_, _)
Join(texts, sep) ==
  IF texts = << >> THEN ""
  ELSE IF Len(texts) = 1 THEN texts[1]
  ELSE texts[1] \o sep \o Join(Tail(texts), sep)

\* Variant: the blocks of every type are joined.
ContentOfAllBlocks(content) ==
  IF content.isString THEN content.text
  ELSE Join([k \in 1..Len(content.blocks) |->
               IF content.blocks[k].text = << >> THEN "" ELSE content.blocks[k].text[1]],
            "\n")

\* convertMessages: the content of one message.
ContentOf(content) ==
  IF content.isString THEN content.text ELSE Join(Texts(content.blocks), "\n")

\* function convertMessages(messages, system)
convertMessages(messages, system) ==
  (IF system # << >> /\ system[1] # ""
   THEN << [role |-> "system", content |-> system[1]] >> ELSE << >>)
    \o [k \in 1..Len(messages) |->
          [role |-> messages[k].role, content |-> ContentOf(messages[k].content)]]

\* An inbound tool definition; description and input_schema are optional.
Tool(name, description, input_schema) ==
  [name |-> name, description |-> description, input_schema |-> input_schema]

\* { type: 'object', properties: {} }
EmptySchema == "{\"type\":\"object\",\"properties\":{}}"

\* Variant: an absent input_schema gives empty parameters.
convertToolsNoDefault(tools) ==
  [k \in 1..Len(tools) |->
     [type |-> "function",
      function |->
        [name |-> tools[k].name,
         description |-> IF tools[k].description = << >> THEN ""
                         ELSE tools[k].description[1],
         parameters |-> IF tools[k].input_schema = << >> THEN ""
                        ELSE tools[k].input_schema[1]]]]

\* function convertTools(tools)
convertTools(tools) ==
  [k \in 1..Len(tools) |->
     [type |-> "function",
      function |->
        [name |-> tools[k].name,
         description |-> IF tools[k].description = << >> THEN ""
                         ELSE tools[k].description[1],
         parameters |-> IF tools[k].input_schema = << >> THEN EmptySchema
                        ELSE tools[k].input_schema[1]]]]

\* anthropicReq.max_tokens || 4096
DefaultMaxTokens == 4096
MaxTokens(max_tokens) ==
  IF max_tokens = << >> \/ max_tokens[1] = 0 THEN DefaultMaxTokens ELSE max_tokens[1]

\* anthropicReq.temperature ?? 1
DefaultTemperature == 1
Temperature(temperature) ==
  IF temperature = << >> THEN DefaultTemperature ELSE temperature[1]

\* anthropicReq.tools && anthropicReq.tools.length > 0
HasTools(tools) == tools # << >> /\ Len(tools[1]) > 0

\* const openaiReq = { model, messages, max_tokens, temperature, stream },
\* and tools and tool_choice when the request has tools.
OpenaiReq(r) ==
  [model |-> mapModel(r.model, deployments),
   messages |-> convertMessages(r.messages, r.system),
   max_tokens |-> MaxTokens(r.max_tokens),
   temperature |-> Temperature(r.temperature),
   stream |-> r.stream,
   tools |-> IF HasTools(r.tools) THEN << convertTools(r.tools[1]) >> ELSE << >>,
   tool_choice |-> IF HasTools(r.tools) THEN << "auto" >> ELSE << >>]

NoOpenaiReq ==
  [model |-> "", messages |-> << >>, max_tokens |-> 0, temperature |-> 0,
   stream |-> FALSE, tools |-> << >>, tool_choice |-> << >>]

\* config.deployments as the setup wizard may have stored it: one backend
\* deployment per family, or one deployment shared by two families.
Deployments ==
  { [opus |-> "gpt-4o", sonnet |-> "gpt-4o-s", haiku |-> "gpt-4o-mini"],
    [opus |-> "gpt-4o", sonnet |-> "gpt-4o", haiku |-> "gpt-4o-mini"] }

DefaultDeployments == [opus |-> "gpt-4o", sonnet |-> "gpt-4o-s", haiku |-> "gpt-4o-mini"]

\* The inbound requests the model draws from.  json: the body parses;
\* stream: anthropicReq.stream === true.
Requests ==
  { [method |-> m, url |-> u, json |-> j, stream |-> st, model |-> "claude-sonnet-x",
     system |-> << >>, messages |-> << Message("user", StringContent("Hi")) >>,
     max_tokens |-> << >>, temperature |-> << >>, tools |-> << >>] :
      m \in { "GET", "POST", "OPTIONS" },
      u \in { "/health", "/v1/messages", "/other" },
      j \in BOOLEAN, st \in BOOLEAN }

NoReq ==
  [method |-> "", url |-> "", json |-> FALSE, stream |-> FALSE, model |-> "",
   system |-> << >>, messages |-> << >>, max_tokens |-> << >>, temperature |-> << >>,
   tools |-> << >>]

\* The requests of the routing specification: every method with every url
\* and every model id.
Methods == { "GET", "POST", "OPTIONS", "PUT", "HEAD", "DELETE" }

Urls ==
  { "/health", "/health?full=1", "/healthz", "/v1/messages", "/v1/messages?beta=true",
    "/messages", "/v1/mymessages", "/v1/message", "/", "/status?next=/messages" }

ModelIds ==
  { "claude-opus-4", "claude-3-haiku", "claude-sonnet-x", "claude-3-opus-not-haiku",
    "haiku-or-opus", "sonnet-opus", "sonnet-haiku", "Claude-Opus", "opu-s", "gpt-4", "" }

\* The bodies of the routing specification: system prompts, message
\* lists, sampling parameters and tool lists.
Systems == { << >>, << "" >>, << "Be brief." >> }

MessageLists ==
  { << >>,
    << Message("user", StringContent("Hi")) >>,
    << Message("user", BlockContent(<< Block("text", << "a" >>), Block("image", << >>),
                                       Block("text", << "b" >>) >>)),
       Message("assistant", StringContent("line 1\nline 2")) >>,
    << Message("user", StringContent("Hi")),
       Message("assistant", BlockContent(<< Block("text", << >>),
                                            Block("tool_use", << >>) >>)),
       Message("user", BlockContent(<< Block("tool_result", << "18C" >>) >>)) >> }

SamplingValues == { << >>, << 0 >>, << 2 >> }

ToolLists ==
  { << >>, << << >> >>,
    << << Tool("get_weather", << "Weather of a city" >>,
               << "{\"type\":\"object\",\"properties\":{\"city\":{}}}" >>) >> >>,
    << << Tool("f2", << >>, << >>),
          Tool("get_weather", << "Weather of a city" >>,
               << "{\"type\":\"object\",\"properties\":{\"city\":{}}}" >>) >> >> }

RoutedRequests ==
  { [method |-> m, url |-> u, json |-> j, stream |-> st, model |-> id,
     system |-> << >>, messages |-> << Message("user", StringContent("Hi")) >>,
     max_tokens |-> << >>, temperature |-> << >>, tools |-> << >>] :
      m \in Methods, u \in Urls, j \in BOOLEAN, st \in BOOLEAN, id \in ModelIds }
    \cup
  { [method |-> "POST", url |-> "/v1/messages", json |-> TRUE, stream |-> st,
     model |-> "claude-sonnet-x", system |-> sys, messages |-> msgs,
     max_tokens |-> mt, temperature |-> temp, tools |-> tools] :
      st \in BOOLEAN, sys \in Systems, msgs \in MessageLists,
      mt \in SamplingValues, temp \in SamplingValues, tools \in ToolLists }

\* ------------------------------------------------------------------- Init
\* The state of a fresh request callback.
\* handleStreaming: the variables of one call when the backend answers:
\* the head and message_start are written, the promise is pending and the
\* stream state is empty.
InitialLocals(model) ==
  [buffer |-> << >>, textBlockStarted |-> FALSE, currentBlockIndex |-> 0,
   toolCalls |-> << >>, toolBlocksStarted |-> {}, inputTokens |-> 0,
   outputTokens |-> 0, events |-> << MessageStart(model) >>, lateWrites |-> 0,
   writableEnded |-> FALSE, promise |-> "pending", returned |-> FALSE]

\* The two requests served at the same time.
Conns == { 1, 2 }

\* A request that has not arrived: `input` is the lines its backend will
\* send, `chunks` the chunks its data listener received, `afterOther` tells
\* that the other request had received data when this one received its
\* latest chunk, `s` the variables of its handleStreaming call.
IdleConnection ==
  [state |-> "idle", model |-> "", input |-> << >>, chunks |-> << >>,
   afterOther |-> FALSE,
   s |-> [InitialLocals("") EXCEPT !.events = << >>, !.promise = "none"]]

Fresh ==
  /\ pc = "idle"
  /\ req = NoReq
  /\ res = NoRes
  /\ events = << >>
  /\ lateWrites = 0
  /\ promise = "none"
  /\ uncaught = FALSE
  /\ azure = "none"
  /\ azureRequests = 0
  /\ wire = << >>
  /\ partial = << >>
  /\ buffer = << >>
  /\ textBlockStarted = FALSE
  /\ currentBlockIndex = 0
  /\ toolCalls = << >>
  /\ toolBlocksStarted = {}
  /\ inputTokens = 0
  /\ outputTokens = 0
  /\ body = << >>
  /\ clientGone = FALSE
  /\ openaiReq = NoOpenaiReq
  /\ connections = [i \in Conns |-> IdleConnection]

Init ==
  /\ Fresh
  /\ scenario \in Scenarios
  /\ deployments = DefaultDeployments

\* The routing specification: one request of any method, url and model id
\* under any stored configuration, up to the backend request.
RoutingInit ==
  /\ Fresh
  /\ scenario \in Scenarios
  /\ scenario.clientMayClose
  /\ deployments \in Deployments

\* ---------------------------------------------------------------- actions
\* http.createServer(async (req, res) => { ... }) up to the backend request:
\* OPTIONS, /health, 404, the body that does not parse, and the start of
\* handleStreaming (head, message_start, https.request) or handleNonStreaming.
Request(r) ==
  /\ pc = "idle"
  /\ req' = r
  /\ IF r.method = "OPTIONS"
     THEN /\ res' = End(WriteHead(res, 204, ""), NoBody)
          /\ pc' = "done"
          /\ UNCHANGED << events, promise, azure, azureRequests, openaiReq >>
     ELSE IF r.url = "/health"
     THEN /\ res' = End(WriteHead(res, 200, "application/json"),
                        [NoBody EXCEPT !.status = "ok"])
          /\ pc' = "done"
          /\ UNCHANGED << events, promise, azure, azureRequests, openaiReq >>
     ELSE IF r.method # "POST" \/ ~IncludesMessages(r.url)
     THEN /\ res' = End(WriteHead(res, 404, ""), [NoBody EXCEPT !.text = "Not found"])
          /\ pc' = "done"
          /\ UNCHANGED << events, promise, azure, azureRequests, openaiReq >>
     ELSE IF ~r.json
     THEN /\ res' = Catch(res, "SyntaxError")
          /\ pc' = "done"
          /\ UNCHANGED << events, promise, azure, azureRequests, openaiReq >>
     ELSE IF r.stream
     THEN /\ openaiReq' = OpenaiReq(r)
          /\ res' = WriteHead(res, 200, "text/event-stream")
          /\ events' = << MessageStart(r.model) >>
          /\ promise' = "pending"
          /\ azure' = "requested"
          /\ azureRequests' = azureRequests + 1
          /\ pc' = "await"
     ELSE /\ openaiReq' = OpenaiReq(r)
          /\ promise' = "pending"
          /\ azure' = "requested"
          /\ azureRequests' = azureRequests + 1
          /\ pc' = "await"
          /\ UNCHANGED << res, events >>
  /\ UNCHANGED << lateWrites, uncaught, wire, partial, streamVars, body, clientGone, scenario,
                  deployments, connections >>

\* https.request(options, (azureRes) => { ... }): the backend answered; the
\* callback declares its locals and registers its listeners.
AzureResponse ==
  /\ azure = "requested"
  /\ azure' = "open"
  /\ buffer' = << >>
  /\ textBlockStarted' = FALSE
  /\ currentBlockIndex' = 0
  /\ toolCalls' = << >>
  /\ toolBlocksStarted' = {}
  /\ body' = << >>
  /\ UNCHANGED << pc, req, res, events, lateWrites, promise, uncaught, azureRequests,
                  wire, partial, inputTokens, outputTokens, clientGone, scenario, deployments, openaiReq, connections >>

\* The await of createProxy after the promise settled: on resolve the
\* callback returns; on reject the catch block runs.
AfterSettle(p, r) == IF p = "rejected" THEN Catch(r, "error") ELSE r

\* The lines a chunk completes after the bytes `buf`, as text, and their
\* number.
Completed(buf, chunk) ==
  LET pieces == SplitLines(buf \o chunk, << >>)
  IN [k \in 1..(Len(pieces) - 1) |-> ChunkToString(pieces[k])]
Received(buf, chunk) == Len(Completed(buf, chunk))

\* The bytes of the line a chunk leaves unfinished.
Partial(buf, chunk) ==
  LET pieces == SplitLines(buf \o chunk, << >>) IN pieces[Len(pieces)]

\* 1 when the chunk leaves a line unfinished, else 0.
Unfinished(chunk) == IF chunk[Len(chunk)] = NL THEN 0 ELSE 1

\* handleStreaming: azureRes.on('data', ...), for one chunk.
StreamData(chunk) ==
  /\ azure = "open" /\ req.stream
  /\ Len(wire) + Received(partial, chunk) + Unfinished(chunk) <= MaxLines
  /\ wire' = wire \o Completed(partial, chunk)
  /\ partial' = Partial(partial, chunk)
  /\ LET s == DataCallback(Locals, chunk)
     IN
        /\ buffer' = s.buffer
        /\ textBlockStarted' = s.textBlockStarted
        /\ currentBlockIndex' = s.currentBlockIndex
        /\ toolCalls' = s.toolCalls
        /\ toolBlocksStarted' = s.toolBlocksStarted
        /\ inputTokens' = s.inputTokens
        /\ outputTokens' = s.outputTokens
        /\ events' = s.events
        /\ lateWrites' = s.lateWrites
        /\ res' = IF s.writableEnded THEN End(res, NoBody) ELSE res
        /\ promise' = s.promise
        /\ pc' = IF s.promise = "pending" THEN pc ELSE "done"
  /\ UNCHANGED << req, uncaught, azure, azureRequests, body, clientGone, scenario, deployments, openaiReq, connections >>

\* Variant: the end listener leaves the response open.
EndNever(r) == r

\* if (!res.writableEnded) { res.end(); }
EndUnlessEnded(r) == IF ~r.writableEnded THEN End(r, NoBody) ELSE r

\* handleStreaming: azureRes.on('end', ...).
StreamEnd ==
  /\ azure = "open" /\ req.stream
  /\ azure' = "ended"
  /\ res' = EndUnlessEnded(res)
  /\ promise' = Settle(promise, "resolved")
  /\ pc' = "done"
  /\ UNCHANGED << req, events, lateWrites, uncaught, azureRequests, wire, partial, streamVars,
                  body, clientGone, scenario, deployments, openaiReq, connections >>

\* handleStreaming: azureRes.on('error', ...) and azureReq.on('error', ...):
\* res.end(); reject(err), and with the rejection the catch of createProxy.
StreamError ==
  /\ azure \in { "requested", "open" } /\ req.stream
  /\ azure' = "errored"
  /\ promise' = Settle(promise, "rejected")
  /\ res' = AfterSettle(promise', End(res, NoBody))
  /\ uncaught' = (uncaught \/ (promise = "pending" /\ CatchThrows(End(res, NoBody))))
  /\ pc' = "done"
  /\ UNCHANGED << req, events, lateWrites, azureRequests, wire, partial, streamVars, body,
                  clientGone, scenario, deployments, openaiReq, connections >>

\* handleNonStreaming: azureRes.on('data', ...).
BodyData(chunk) ==
  /\ azure = "open" /\ ~req.stream
  /\ Len(body) < MaxBodyChunks
  /\ body' = Concat(body, chunk)
  /\ UNCHANGED << pc, req, res, events, lateWrites, promise, uncaught, azure,
                  azureRequests, wire, partial, streamVars, clientGone, scenario, deployments, openaiReq, connections >>

\* handleNonStreaming: azureRes.on('end', ...): the message or the 500, and
\* on the 500 the rejection and the catch of createProxy.
BodyEnd ==
  /\ azure = "open" /\ ~req.stream
  /\ azure' = "ended"
  /\ LET r == NonStreamingResult(res, body, req.model)
     IN /\ promise' = Settle(promise, IF r.status = 200 THEN "resolved" ELSE "rejected")
        /\ res' = AfterSettle(promise', r)
        /\ uncaught' = (uncaught \/ (promise' = "rejected" /\ CatchThrows(r)))
  /\ pc' = "done"
  /\ UNCHANGED << req, events, lateWrites, azureRequests, wire, partial, streamVars, body,
                  clientGone, scenario, deployments, openaiReq, connections >>

\* handleNonStreaming: azureReq.on('error', ...).
BodyError ==
  /\ azure \in { "requested", "open" } /\ ~req.stream
  /\ azure' = "errored"
  /\ LET r == End(WriteHead(res, 500, "application/json"), ErrorBody("ECONNRESET"))
     IN /\ promise' = Settle(promise, "rejected")
        /\ res' = AfterSettle(promise', r)
        /\ uncaught' = (uncaught \/ CatchThrows(r))
  /\ pc' = "done"
  /\ UNCHANGED << req, events, lateWrites, azureRequests, wire, partial, streamVars, body,
                  clientGone, scenario, deployments, openaiReq, connections >>

\* The client closes its connection while the request is being served and
\* Node dispatches 'close' for the response.  Neither createProxy nor
\* handleStreaming registers a listener for it, and nothing calls
\* azureReq.destroy(): the backend request is left as it is.
ClientClose ==
  /\ scenario.clientMayClose
  /\ pc = "await" /\ ~clientGone
  /\ clientGone' = TRUE
  /\ UNCHANGED << pc, req, res, events, lateWrites, promise, uncaught, azure,
                  azureRequests, wire, partial, streamVars, body, scenario, deployments, openaiReq, connections >>

\* The chunks of a non-streaming backend body.
BodyChunks(replies) ==
  { BodyTok("{bad", 0, Reply(<< >>, << >>)) }
    \cup { BodyTok("json", p, rp) : p \in 0..2, rp \in replies }
    \cup { BodyTok("json", p, rp) :
             p \in 3..4,
             rp \in { d \in replies :
                        \E k \in 1..Len(d.choices) : HasMultiByte(d.choices[k].content) } }

Next ==
  \/ \E r \in Requests : Request(r)
  \/ AzureResponse
  \/ \E chunk \in Chunks(scenario.lines, partial) : StreamData(chunk)
  \/ StreamEnd
  \/ StreamError
  \/ \E chunk \in BodyChunks(scenario.replies) : BodyData(chunk)
  \/ BodyEnd
  \/ BodyError
  \/ ClientClose

Spec == Init /\ [][Next]_vars

RoutingNext == \E r \in RoutedRequests : Request(r)

RoutingSpec == RoutingInit /\ [][RoutingNext]_vars

\* ----------------------------------------------------------- vocabulary
\* handleStreaming / handleNonStreaming was entered for the request.
Streaming == req.stream /\ promise # "none"
NonStreaming == ~req.stream /\ promise # "none"

\* The positions of `events` holding an event of the given type.
Pos(type) == { p \in 1..Len(events) : events[p].type = type }

IsStart(e) == e.type = "content_block_start"
IsDelta(e) == e.type = "content_block_delta"
IsStop(e) == e.type = "content_block_stop"

\* A received line that carries a backend event with a first choice.
IsEventLine(line) ==
  /\ Len(line) = 2 /\ line[1] = Marker /\ line[2].txt = "json"
  /\ line[2].val.choices > 0

IsFinishLine(line) == IsEventLine(line) /\ line[2].val.finish_reason # ""

\* The backend events received, in order, up to the first one carrying
\* finish_reason (what follows it is never delivered as an event).
RECURSIVE Parsed(_)
Parsed(lines) ==
  IF lines = << >> THEN << >>
  ELSE IF IsFinishLine(Head(lines)) THEN << Head(lines)[2].val >>
  ELSE IF IsEventLine(Head(lines)) THEN << Head(lines)[2].val >> \o Parsed(Tail(lines))
  ELSE Parsed(Tail(lines))

\* An event with finish_reason was received in a complete line.
FinishSeen == \E k \in 1..Len(wire) : IsFinishLine(wire[k])

\* ----------------------------------------------------------------- claims
\* C1 (as stated): every streaming response, once its stream is closed,
\* begins with message_start and ends with exactly one message_stop that is
\* immediately preceded by the only message_delta, whatever the backend did.
C1_AlwaysCleanStop ==
  (Streaming /\ res.writableEnded) =>
    /\ Len(events) >= 3
    /\ events[1].type = "message_start"
    /\ Pos("message_stop") = { Len(events) }
    /\ Pos("message_delta") = { Len(events) - 1 }

\* C1 (amended): a streaming response begins with its only message_start; when
\* an event with finish_reason was processed it ends with exactly one
\* message_delta immediately followed by exactly one message_stop; when the
\* backend ended or failed before that, it has neither.
C1_StartAndStopOnFinish ==
  Streaming =>
    /\ Pos("message_start") = { 1 }
    /\ FinishSeen =>
         /\ res.writableEnded
         /\ Pos("message_stop") = { Len(events) }
         /\ Pos("message_delta") = { Len(events) - 1 }
    /\ ~FinishSeen => (Pos("message_stop") = {} /\ Pos("message_delta") = {})

C1_Witness ==
  /\ Streaming /\ FinishSeen /\ azure = "ended"
  /\ Len(events) >= 5
  /\ events[Len(events)].type = "message_stop"

\* C2: when finish_reason is processed every started block is closed: at
\* message_stop each block index with a content_block_start has exactly one
\* content_block_stop, emitted before message_delta.
C2_EveryStartedBlockStopped ==
  (Streaming /\ Pos("message_stop") # {}) =>
    \A p \in Pos("content_block_start") :
      /\ Cardinality({ q \in Pos("content_block_stop") :
                         events[q].index = events[p].index }) = 1
      /\ \A q \in Pos("content_block_stop") : \A d \in Pos("message_delta") :
           events[q].index = events[p].index => (p < q /\ q < d)

\* A text block is open at position p: started before p and not stopped since.
TextOpenAt(p) ==
  \E q \in 1..(p - 1) :
    /\ IsStart(events[q]) /\ events[q].kind = "text"
    /\ \A r \in (q + 1)..(p - 1) :
         ~(IsStop(events[r]) /\ events[r].index = events[q].index)

\* A stop of a text block was emitted before position p.
TextStoppedBefore(p) ==
  \E q \in 1..(p - 1) : \E r \in (q + 1)..(p - 1) :
    /\ IsStart(events[q]) /\ events[q].kind = "text"
    /\ IsStop(events[r]) /\ events[r].index = events[q].index

TextStartedBefore(p) ==
  \E q \in 1..(p - 1) : IsStart(events[q]) /\ events[q].kind = "text"

\* C3: every content_block_start of kind tool_use is preceded by a stop of
\* the text block if and only if a text block had been opened, and no tool_use
\* block is started while a text block is open.
C3_TextClosedBeforeToolUse ==
  Streaming =>
    \A p \in Pos("content_block_start") :
      events[p].kind = "tool_use" =>
        /\ TextStoppedBefore(p) <=> TextStartedBefore(p)
        /\ ~TextOpenAt(p)

\* C4: for every block index the events come in the order start, deltas,
\* stop: no delta or stop of an index before a start of it, and no start or
\* delta of an index after its stop.
C4_BlockEventOrder ==
  Streaming =>
    \A p \in 1..Len(events) :
      /\ (IsDelta(events[p]) \/ IsStop(events[p])) =>
           \E q \in 1..(p - 1) :
             IsStart(events[q]) /\ events[q].index = events[p].index
      /\ IsStop(events[p]) =>
           \A q \in (p + 1)..Len(events) :
             (IsStart(events[q]) \/ IsDelta(events[q])) =>
               events[q].index # events[p].index

\* A text block was stopped and a tool block was then started and streamed.
C4_Witness ==
  /\ Streaming
  /\ \E p, q, r \in 1..Len(events) :
       /\ p < q /\ q < r
       /\ IsStop(events[p])
       /\ IsStart(events[q]) /\ events[q].kind = "tool_use"
       /\ IsDelta(events[r]) /\ events[r].index = events[q].index

\* The events of a text-only stream: n deltas, then finish_reason "stop".
TextOnly(evs) ==
  /\ Len(evs) >= 2
  /\ \A k \in 1..(Len(evs) - 1) :
       evs[k].content # "" /\ evs[k].tool_calls = << >> /\ evs[k].finish_reason = ""
  /\ evs[Len(evs)].finish_reason = "stop"

\* C5: n >= 1 content deltas and no tool call, then finish_reason "stop",
\* give exactly message_start, content_block_start(0, text), one
\* content_block_delta(0) per backend delta with its text and in its order,
\* content_block_stop(0), message_delta(end_turn), message_stop.
C5_TextOnlySequence ==
  LET evs == Parsed(wire)
      n == Len(evs) - 1
  IN (Streaming /\ TextOnly(evs)) =>
       /\ Len(events) = n + 5
       /\ events[1] = MessageStart(req.model)
       /\ events[2] = TextBlockStart(0)
       /\ \A k \in 1..n : events[2 + k] = TextBlockDelta(0, evs[k].content)
       /\ events[n + 3] = ContentBlockStop(0)
       /\ events[n + 4].type = "message_delta"
       /\ events[n + 4].stop_reason = "end_turn"
       /\ events[n + 5] = MessageStop

\* C6: when the client disconnects while a streaming response is in progress
\* (backend request open, no finish_reason processed), the backend request
\* is aborted: once the close of the client was dispatched the backend
\* connection is no longer open.
C6_BackendAbortedOnDisconnect ==
  (Streaming /\ clientGone /\ promise = "pending") =>
    azure \notin { "requested", "open" }

\* C7: when the backend connection errors or ends before any event with
\* finish_reason was processed, the client-facing stream is closed, no
\* message_stop is emitted, and the handler is not left waiting.
C7_ClosedWithoutStop ==
  (Streaming /\ azure \in { "ended", "errored" } /\ ~FinishSeen) =>
    /\ res.writableEnded
    /\ Pos("message_stop") = {}
    /\ promise \in { "resolved", "rejected" }
    /\ pc = "done"

\* The backend ended in the middle of a text block.
C7_Witness ==
  /\ Streaming /\ azure = "ended" /\ ~FinishSeen
  /\ textBlockStarted
  /\ res.writableEnded

\* The request reached the translation (POST to a messages path).
Translated(r) == r.method = "POST" /\ r.url # "/health" /\ IncludesMessages(r.url)

\* A failure of a non-streaming request: the request body is not JSON, the
\* backend connection failed, the backend body is not JSON, or the backend
\* reply has no first choice.
NonStreamingFailure ==
  /\ pc = "done" /\ Translated(req)
  /\ \/ ~req.json
     \/ /\ NonStreaming
        /\ \/ azure = "errored"
           \/ azure = "ended" /\ ~BodyOk(body)
           \/ azure = "ended" /\ BodyOk(body) /\ body[1].val.choices = << >>

GoodReply == NonStreaming /\ azure = "ended" /\ BodyOk(body) /\ body[1].val.choices # << >>

\* The number of text blocks the content starts with.
TextBlocks(choice) == IF choice.content # "" THEN 1 ELSE 0

\* A tool-call fragment of a received line carries arguments that are not JSON.
BadArgsSeen ==
  \E k \in 1..Len(wire) :
    /\ IsEventLine(wire[k])
    /\ \E f \in 1..Len(wire[k][2].val.tool_calls) :
         LET a == wire[k][2].val.tool_calls[f].arguments IN a # "" /\ ~IsJson(a)

\* C9: tool-call arguments that are not valid JSON never cause an error: the
\* non-streaming reply is a 200 whose tool_use block has input {}; in a
\* stream every tool_use content_block_start has input {} and the stream
\* still ends with message_delta and message_stop.
C9_BadArgumentsTolerated ==
  /\ GoodReply =>
       LET choice == body[1].val.choices[1]
       IN /\ res.status = 200
          /\ Len(res.body.message) = 1
          /\ \A k \in 1..Len(choice.tool_calls) :
               (choice.tool_calls[k].arguments # "" /\ ~IsJson(choice.tool_calls[k].arguments))
                 => /\ Len(res.body.message[1].content) >= TextBlocks(choice) + k
                    /\ res.body.message[1].content[TextBlocks(choice) + k].type = "tool_use"
                    /\ res.body.message[1].content[TextBlocks(choice) + k].input = "{}"
  /\ Streaming =>
       /\ \A p \in Pos("content_block_start") :
            events[p].kind = "tool_use" => events[p].input = "{}"
       /\ (BadArgsSeen /\ FinishSeen) =>
            /\ res.status = 200 /\ res.writableEnded /\ ~uncaught
            /\ promise = "resolved"
            /\ Len(events) >= 3
            /\ events[Len(events) - 1].type = "message_delta"
            /\ events[Len(events)].type = "message_stop"

\* A non-streaming reply with a tool call whose arguments are not JSON.
C9_Witness ==
  /\ GoodReply
  /\ \E k \in 1..Len(body[1].val.choices[1].tool_calls) :
       body[1].val.choices[1].tool_calls[k].arguments = "{bad json"
  /\ res.status = 200

\* C10: for a non-streaming reply with a first choice the content is one
\* text block with the backend text iff that text is non-empty, then one
\* tool_use block per backend tool call in backend order with its id, its
\* name and the JSON-parsed arguments as input.
C10_ContentBlocks ==
  GoodReply =>
    LET choice == body[1].val.choices[1]
        content == res.body.message[1].content
        t == TextBlocks(choice)
    IN /\ Len(content) = t + Len(choice.tool_calls)
       /\ t = 1 => content[1] = TextBlock(choice.content)
       /\ \A k \in 1..Len(choice.tool_calls) :
            /\ content[t + k].type = "tool_use"
            /\ content[t + k].id = choice.tool_calls[k].id
            /\ content[t + k].name = choice.tool_calls[k].name
            /\ \A v \in ValidJson :
                 v[1] = choice.tool_calls[k].arguments => content[t + k].input = v[2]

\* The model ids of ModelIds that contain "opus", and those that contain
\* "haiku", read off the ids character by character.
OpusIds == { "claude-opus-4", "claude-3-opus-not-haiku", "haiku-or-opus", "sonnet-opus" }
HaikuIds == { "claude-3-haiku", "claude-3-opus-not-haiku", "haiku-or-opus", "sonnet-haiku" }

\* The request was accepted for translation: its body was read and parsed,
\* which ends in the backend request or in the 500 of the catch block.
Accepted == pc = "await" \/ (pc = "done" /\ res.status = 500)

\* C11: mapModel returns a deployment for every model id: deployments.opus
\* when the id contains "opus" (whatever else it contains), otherwise
\* deployments.haiku when it contains "haiku", otherwise deployments.sonnet;
\* the backend model is determined by the model id and the deployments
\* record alone.
C11_ModelPriority ==
  pc = "await" =>
    /\ openaiReq.model \in { deployments.opus, deployments.haiku, deployments.sonnet }
    /\ req.model \in OpusIds => openaiReq.model = deployments.opus
    /\ req.model \in HaikuIds \ OpusIds => openaiReq.model = deployments.haiku
    /\ req.model \notin OpusIds \cup HaikuIds => openaiReq.model = deployments.sonnet

\* A model id that contains "haiku" before "opus" was mapped.
C11_Witness ==
  /\ pc = "await" /\ req.model = "haiku-or-opus"
  /\ openaiReq.model = deployments.opus
  /\ deployments.opus # deployments.haiku

\* The path of a url: what precedes the first "?".
PathOf(url) ==
  LET marks == { i \in 1..Len(url) : SubSeq(url, i, i) = "?" }
  IN IF marks = {} THEN url
     ELSE SubSeq(url, 1, (CHOOSE i \in marks : \A j \in marks : i <= j) - 1)

\* C12: GET /health answers 200 {"status":"ok"}; OPTIONS answers 204; a POST
\* to a path containing "messages" is accepted for translation; every other
\* method and path answers 404.
C12_Routing ==
  pc # "idle" =>
    IF req.method = "OPTIONS" THEN res.status = 204
    ELSE IF req.method = "GET" /\ PathOf(req.url) = "/health"
    THEN res.status = 200 /\ res.body = [NoBody EXCEPT !.status = "ok"]
    ELSE IF req.method = "POST" /\ Includes(PathOf(req.url), "messages") THEN Accepted
    ELSE res.status = 404

\* The finish_reason of the first received event that carries one.
FinishReason == Parsed(wire)[Len(Parsed(wire))].finish_reason

\* C13: on both paths the stop reason is tool_use exactly when the backend
\* finish_reason is "tool_calls" and end_turn for every other finish reason;
\* no other stop reason is emitted, and only message_delta carries one.
C13_StopReason ==
  /\ Streaming =>
       \A p \in 1..Len(events) :
         IF events[p].type = "message_delta"
         THEN /\ FinishSeen
              /\ events[p].stop_reason \in { "tool_use", "end_turn" }
              /\ events[p].stop_reason = "tool_use" <=> FinishReason = "tool_calls"
         ELSE events[p].stop_reason = ""
  /\ GoodReply =>
       LET stop_reason == res.body.message[1].stop_reason
       IN /\ stop_reason \in { "tool_use", "end_turn" }
          /\ stop_reason = "tool_use" <=>
               body[1].val.choices[1].finish_reason = "tool_calls"

\* A stream that the backend finished with "length".
C13_Witness ==
  /\ Streaming /\ FinishSeen /\ FinishReason = "length"
  /\ Len(events) >= 2
  /\ events[Len(events) - 1].stop_reason = "end_turn"

\* The locals of handleStreaming when the backend answers: message_start
\* written, nothing received.
StartLocals ==
  [buffer |-> << >>, textBlockStarted |-> FALSE, currentBlockIndex |-> 0,
   toolCalls |-> << >>, toolBlocksStarted |-> {}, inputTokens |-> 0,
   outputTokens |-> 0, events |-> << MessageStart(req.model) >>, lateWrites |-> 0,
   writableEnded |-> FALSE, promise |-> "pending", returned |-> FALSE]

\* The division of the received bytes that puts every line in a chunk of its own.
RECURSIVE OneLinePerChunk(_, _)
OneLinePerChunk(s, lines) ==
  IF lines = << >> THEN s
  ELSE OneLinePerChunk(DataCallback([s EXCEPT !.returned = FALSE],
                                    Utf8(Head(lines)) \o << NL >>),
                       Tail(lines))

\* The bytes of a sequence of complete lines.
RECURSIVE Bytes(_)
Bytes(lines) ==
  IF lines = << >> THEN << >> ELSE Utf8(Head(lines)) \o << NL >> \o Bytes(Tail(lines))

\* The division that puts all received lines in one chunk.
OneChunk(s, lines) == IF lines = << >> THEN s ELSE DataCallback(s, Bytes(lines))

\* C14: the events delivered to the client depend on the backend bytes only,
\* not on their division into chunks: however the lines received so far were
\* split (in the middle of a line, with the lines after the finish line in
\* the same chunk or in a later one), the events are those of the division
\* with one line per chunk and those of the division into a single chunk.
C14_ChunkingIndependent ==
  (Streaming /\ azure # "requested") =>
    /\ events = OneLinePerChunk(StartLocals, wire).events
    /\ events = OneChunk(StartLocals, wire).events

\* C15: nothing is written to the client stream after it was ended: once
\* finish_reason was processed, lines that arrive in later chunks cause no
\* res.write, and the stream holds at most one message_delta and one
\* message_stop.
C15_NoWriteAfterEnd ==
  Streaming =>
    /\ lateWrites = 0
    /\ Cardinality(Pos("message_delta")) <= 1
    /\ Cardinality(Pos("message_stop")) <= 1

\* C16: no two content_block_start events of a stream carry the same index,
\* whatever the order of text deltas and tool-call deltas.
C16_DistinctStartIndexes ==
  Streaming =>
    \A p, q \in Pos("content_block_start") :
      p # q => events[p].index # events[q].index

\* The tool-call fragments of a sequence of backend events, in order.
RECURSIVE Fragments(_)
Fragments(evs) ==
  IF evs = << >> THEN << >> ELSE Head(evs).tool_calls \o Fragments(Tail(evs))

\* The upstream tool-call indexes for which a name was received, and the
\* first name received for an index.
NamedIndexes ==
  LET frags == Fragments(Parsed(wire))
  IN { frags[k].index : k \in { j \in 1..Len(frags) : frags[j].name # "" } }

FirstName(i) ==
  LET frags == Fragments(Parsed(wire))
      first == CHOOSE k \in 1..Len(frags) :
                 /\ frags[k].index = i /\ frags[k].name # ""
                 /\ \A j \in 1..(k - 1) : ~(frags[j].index = i /\ frags[j].name # "")
  IN frags[first].name

\* A text delta was received before the first tool-call delta.
TextBeforeTools ==
  LET evs == Parsed(wire)
  IN \E i \in 1..Len(evs) :
       evs[i].content # "" /\ \A j \in 1..(i - 1) : evs[j].tool_calls = << >>

ToolStarts == { p \in Pos("content_block_start") : events[p].kind = "tool_use" }
TextStarts == { p \in Pos("content_block_start") : events[p].kind = "text" }

\* C17: as long as every write was accepted, each upstream tool-call index
\* has exactly one tool_use content_block_start as soon as a name was
\* received for it, and none before; its block index is currentBlockIndex
\* plus the upstream index; every input_json_delta carries the block index
\* of the tool call its fragment belongs to and follows that block's start;
\* and when a text delta came before the first tool-call delta, the first
\* text block has index 0 and every tool block an index of at least 1.
C17_ToolBlockIndexes ==
  (Streaming /\ lateWrites = 0) =>
    /\ Cardinality(ToolStarts) = Cardinality(NamedIndexes)
    /\ \A i \in NamedIndexes :
         \E p \in ToolStarts :
           /\ events[p].index = currentBlockIndex + i
           /\ events[p].name = FirstName(i)
    /\ \A d \in Pos("content_block_delta") :
         events[d].kind = "input_json_delta" =>
           /\ \E p \in ToolStarts : p < d /\ events[p].index = events[d].index
           /\ LET frags == Fragments(Parsed(wire))
              IN \E k \in 1..Len(frags) :
                   /\ frags[k].arguments = events[d].text
                   /\ events[d].index = currentBlockIndex + frags[k].index
    /\ TextBeforeTools =>
         /\ \A p \in TextStarts : (\A q \in TextStarts : p <= q) => events[p].index = 0
         /\ \A p \in ToolStarts : events[p].index >= 1

\* Text, then two tool calls: the text block at 0, the tool blocks at 1 and
\* 2, and arguments streamed for the second.
C17_Witness ==
  /\ Streaming /\ lateWrites = 0 /\ TextBeforeTools
  /\ NamedIndexes = { 0, 1 }
  /\ \E p, q \in ToolStarts : events[p].index = 1 /\ events[q].index = 2
  /\ \E d \in Pos("content_block_delta") :
       events[d].kind = "input_json_delta" /\ events[d].index = 2

\* The partial_json texts of the input_json_delta events of a block, joined
\* in the order of the events.
RECURSIVE PartialJson(_, _)
PartialJson(evs, index) ==
  IF evs = << >> THEN ""
  ELSE (IF Head(evs).kind = "input_json_delta" /\ Head(evs).index = index
        THEN Head(evs).text ELSE "")
         \o PartialJson(Tail(evs), index)

\* C18: as long as every write was accepted, for every started tool block
\* the partial_json texts of its input_json_delta events, joined in order,
\* are the arguments text accumulated for its upstream tool call, whatever
\* the order in which id, name and arguments arrived.
C18_PartialJsonIsArguments ==
  (Streaming /\ lateWrites = 0) =>
    \A k \in 1..Len(toolCalls) :
      LET blockIndex == currentBlockIndex + toolCalls[k].index
      IN blockIndex \in toolBlocksStarted =>
           PartialJson(events, blockIndex) = toolCalls[k].arguments

\* C19: the response head is written at most once on every path: no
\* writeHead is attempted after the headers were sent, so the catch block of
\* createProxy never throws ERR_HTTP_HEADERS_SENT.
C19_HeadWrittenOnce == ~uncaught

\* A noise line: one that does not start with the data marker, the [DONE]
\* sentinel, or a data line whose payload is not JSON.
IsNoiseLine(line) ==
  \/ Len(line) = 0
  \/ line[1] # Marker
  \/ line = << Marker, DoneTok >>
  \/ line = << Marker, BadTok >>

\* The lines a step added to the received ones.
NewLines == SubSeq(wire', Len(wire) + 1, Len(wire'))

\* C20: a line that does not start with the data marker, a [DONE] line and a
\* data line that is not JSON emit no event, do not end the stream and leave
\* textBlockStarted, currentBlockIndex, toolCalls, toolBlocksStarted,
\* inputTokens and outputTokens as they are; the line that follows in the
\* same chunk is processed as if it came alone.
C20_NoiseLinesIgnored ==
  [][ /\ (Len(NewLines) >= 1 /\ \A k \in 1..Len(NewLines) : IsNoiseLine(NewLines[k]))
        => UNCHANGED << events, lateWrites, res, promise, pc, textBlockStarted,
                        currentBlockIndex, toolCalls, toolBlocksStarted,
                        inputTokens, outputTokens >>
      /\ (Len(NewLines) = 2 /\ IsNoiseLine(NewLines[1]))
        => LET s == HandleLine(Locals, NewLines[2])
           IN /\ events' = s.events
              /\ lateWrites' = s.lateWrites
              /\ res'.writableEnded = s.writableEnded
              /\ textBlockStarted' = s.textBlockStarted
              /\ currentBlockIndex' = s.currentBlockIndex
              /\ toolCalls' = s.toolCalls
              /\ toolBlocksStarted' = s.toolBlocksStarted
              /\ inputTokens' = s.inputTokens
              /\ outputTokens' = s.outputTokens
    ]_vars

\* A noise line was received between two text deltas, and both deltas were
\* delivered on an open stream.
C20_Witness ==
  /\ Streaming /\ ~res.writableEnded
  /\ \E k \in 2..(Len(wire) - 1) :
       /\ IsNoiseLine(wire[k])
       /\ IsEventLine(wire[k - 1]) /\ wire[k - 1][2].val.content # ""
       /\ IsEventLine(wire[k + 1]) /\ wire[k + 1][2].val.content # ""
  /\ Cardinality(Pos("content_block_delta")) = 2

\* A received data line whose payload is JSON, with or without choices.
IsJsonLine(line) == Len(line) = 2 /\ line[1] = Marker /\ line[2].txt = "json"

\* The received lines up to and including the first one with finish_reason.
UpToFinish(lines) ==
  IF \E k \in 1..Len(lines) : IsFinishLine(lines[k])
  THEN SubSeq(lines, 1, CHOOSE k \in 1..Len(lines) :
                          /\ IsFinishLine(lines[k])
                          /\ \A j \in 1..(k - 1) : ~IsFinishLine(lines[j]))
  ELSE lines

\* The positions of the lines up to the finish that carry a usage object.
UsageReports ==
  { k \in 1..Len(UpToFinish(wire)) :
      IsJsonLine(wire[k]) /\ wire[k][2].val.usage # << >> }

\* C21: every parsed backend event that carries a usage object sets
\* inputTokens and outputTokens to the reported counts, and the output_tokens
\* of message_delta is the completion count the backend reported last, before
\* or with the event that carries finish_reason.
C21_UsageOverrides ==
  Streaming =>
    /\ (~FinishSeen /\ Len(wire) \in UsageReports) =>
         /\ inputTokens = wire[Len(wire)][2].val.usage[1].prompt_tokens
         /\ outputTokens = wire[Len(wire)][2].val.usage[1].completion_tokens
    /\ (FinishSeen /\ UsageReports # {}) =>
         LET last == CHOOSE k \in UsageReports : \A j \in UsageReports : j <= k
         IN \A p \in Pos("message_delta") :
              events[p].output_tokens = wire[last][2].val.usage[1].completion_tokens

\* No received event had its usage object applied: none with a first
\* choice and without finish_reason carries one.
NoUsageApplied ==
  \A k \in 1..Len(wire) :
    ~(IsEventLine(wire[k]) /\ ~IsFinishLine(wire[k]) /\ wire[k][2].val.usage # << >>)

\* The number of non-empty text deltas among a sequence of backend events.
TextDeltas(evs) ==
  Cardinality({ k \in 1..Len(evs) : evs[k].content # "" /\ evs[k].finish_reason = "" })

\* C22: when no usage object was applied, the output-token counter is the
\* number of non-empty text deltas processed (one per delta, none for a
\* tool-call delta), and the output_tokens of message_delta is that number
\* as of the event with finish_reason.
C22_OutputTokenCounter ==
  (Streaming /\ NoUsageApplied) =>
    /\ lateWrites = 0 => outputTokens = TextDeltas(Parsed(wire))
    /\ \A p \in Pos("message_delta") :
         events[p].output_tokens = TextDeltas(Parsed(wire))

\* Two text deltas, then the finish: message_delta reports 2.
C22_Witness ==
  /\ Streaming /\ NoUsageApplied /\ FinishSeen
  /\ TextDeltas(Parsed(wire)) = 2
  /\ \E p \in Pos("message_delta") : events[p].output_tokens = 2

\* The system prompt of the request: a system field holding a non-empty
\* string (an empty string is no prompt).
SystemPrompt == req.system # << >> /\ req.system[1] # ""

\* The texts of the text blocks of a block sequence, in order, joined by
\* newline, written out by hand for the block sequences of MessageLists.
JoinedTexts(blocks) ==
  CASE blocks = << Block("text", << "a" >>), Block("image", << >>),
                   Block("text", << "b" >>) >> -> "a\nb"
    [] blocks = << Block("text", << >>), Block("tool_use", << >>) >> -> ""
    [] blocks = << Block("tool_result", << "18C" >>) >> -> ""

\* C23: the backend message list is the inbound messages in the same
\* order with the same roles, preceded by exactly one role "system"
\* message holding the system prompt if and only if the request has one; a
\* string content is copied verbatim and a block-sequence content becomes
\* the texts of its text blocks, in order, joined by newline, the other
\* blocks being dropped.
C23_MessagesPreserved ==
  pc = "await" =>
    LET out == openaiReq.messages
        off == IF SystemPrompt THEN 1 ELSE 0
    IN /\ Len(out) = Len(req.messages) + off
       /\ SystemPrompt => out[1] = [role |-> "system", content |-> req.system[1]]
       /\ Cardinality({ k \in 1..Len(out) : out[k].role = "system" }) = off
       /\ \A k \in 1..Len(req.messages) :
            /\ out[k + off].role = req.messages[k].role
            /\ out[k + off].content =
                 IF req.messages[k].content.isString
                 THEN req.messages[k].content.text
                 ELSE JoinedTexts(req.messages[k].content.blocks)

\* A request with a system prompt and a message of two text blocks around an
\* image block was translated.
C23_Witness ==
  /\ pc = "await" /\ SystemPrompt /\ Len(openaiReq.messages) = 3
  /\ openaiReq.messages[1].role = "system"
  /\ ~req.messages[1].content.isString
  /\ openaiReq.messages[2] = [role |-> "user", content |-> "a\nb"]
  /\ openaiReq.messages[3] = [role |-> "assistant", content |-> "line 1\nline 2"]

\* C24: max_tokens of the backend request is 4096 and temperature is 1 only
\* when the inbound field is unset; every supplied value, an explicit 0
\* included, is copied unchanged; the stream flag of the backend request
\* equals the inbound streaming flag.
C24_NullishDefaults ==
  pc = "await" =>
    /\ openaiReq.max_tokens =
         IF req.max_tokens = << >> THEN DefaultMaxTokens ELSE req.max_tokens[1]
    /\ openaiReq.temperature =
         IF req.temperature = << >> THEN DefaultTemperature ELSE req.temperature[1]
    /\ openaiReq.stream = req.stream

\* The inbound tools: none when the field is absent.
InboundTools == IF req.tools = << >> THEN << >> ELSE req.tools[1]

\* C25: the backend request carries a tools list and tool_choice "auto"
\* exactly when the inbound request has at least one tool; the list has one
\* function descriptor per inbound tool, in the same order, with the same
\* name and with the tool's input_schema, or the empty object schema when
\* it has none, as parameters; with no tools both fields are omitted.
C25_ToolsIffAny ==
  pc = "await" =>
    /\ openaiReq.tools # << >> <=> Len(InboundTools) > 0
    /\ openaiReq.tool_choice = (IF Len(InboundTools) > 0 THEN << "auto" >> ELSE << >>)
    /\ Len(InboundTools) > 0 =>
         /\ Len(openaiReq.tools[1]) = Len(InboundTools)
         /\ \A k \in 1..Len(InboundTools) :
              /\ openaiReq.tools[1][k].type = "function"
              /\ openaiReq.tools[1][k].function.name = InboundTools[k].name
              /\ openaiReq.tools[1][k].function.parameters =
                   IF InboundTools[k].input_schema = << >>
                   THEN "{\"type\":\"object\",\"properties\":{}}"
                   ELSE InboundTools[k].input_schema[1]

\* A request with two tools, the first without input_schema, was
\* translated.
C25_Witness ==
  /\ pc = "await" /\ Len(InboundTools) = 2
  /\ InboundTools[1].input_schema = << >> /\ InboundTools[2].input_schema # << >>
  /\ openaiReq.tool_choice = << "auto" >>
  /\ openaiReq.tools[1][1].function.name = "f2"
  /\ openaiReq.tools[1][2].function.name = "get_weather"

\* ------------------------------------------ two requests at the same time
\* The most bytes of a line that a chunk may carry ahead of the rest of
\* the line.
MaxSplit == 1

\* What the backend of a request may send: text, a tool call and the end of
\* a tool-call turn; text with a two-byte character, usage and a stop.
ConcurrentInputs ==
  { << DataLine(TextDelta("Hel")),
       DataLine(ToolDelta(<< ToolFrag(0, "call_1", "get_weather", "") >>)),
       DataLine(Finish("tool_calls")) >>,
    << DataLine(TextDelta("caf<C3 A9>")),
       DataLine([TextDelta("lo") EXCEPT !.usage = Usage(3, 7)]),
       DataLine(Finish("stop")) >> }

\* anthropicReq.model of the two requests.
ConnModel(i) == IF i = 1 THEN "claude-opus-x" ELSE "claude-haiku-x"

Other(i) == CHOOSE j \in Conns : j # i

\* The variables of the single-request actions.
requestVars ==
  << pc, req, res, events, lateWrites, promise, uncaught, azure, azureRequests,
     wire, partial, buffer, textBlockStarted, currentBlockIndex, toolCalls,
     toolBlocksStarted, inputTokens, outputTokens, body, clientGone, scenario,
     deployments, openaiReq >>

\* All chunks of a request, end to end.
RECURSIVE Flat(_)
Flat(chunks) == IF chunks = << >> THEN << >> ELSE Head(chunks) \o Flat(Tail(chunks))

\* The chunks the next data event of a request may carry: the rest of the
\* current line with its newline, or, at the start of a line, its first
\* bytes (at most MaxSplit of them).
NextChunks(c) ==
  LET sent == Len(Flat(c.chunks))
      all == Bytes(c.input)
      rest == SubSeq(all, sent + 1, Len(all))
      nl == CHOOSE k \in 1..Len(rest) :
              rest[k] = NL /\ \A j \in 1..(k - 1) : rest[j] # NL
      midLine == sent > 0 /\ all[sent] # NL
  IN IF rest = << >> THEN {}
     ELSE { SubSeq(rest, 1, nl) }
            \cup (IF midLine THEN {}
                  ELSE { SubSeq(rest, 1, k) : k \in 1..(IF MaxSplit < nl - 1 THEN MaxSplit
                                                         ELSE nl - 1) })

\* Variant: the stream state is declared once for the server, and every
\* data listener reads the variables the first request wrote.
StreamStateShared(conns, i) ==
  [conns[i].s EXCEPT !.buffer = conns[1].s.buffer,
                     !.textBlockStarted = conns[1].s.textBlockStarted,
                     !.currentBlockIndex = conns[1].s.currentBlockIndex,
                     !.toolCalls = conns[1].s.toolCalls,
                     !.toolBlocksStarted = conns[1].s.toolBlocksStarted,
                     !.inputTokens = conns[1].s.inputTokens,
                     !.outputTokens = conns[1].s.outputTokens]

\* handleStreaming: the variables the data listener of request i closes
\* over, declared inside its own call and its own https.request callback.
StreamState(conns, i) == conns[i].s

\* createProxy and handleStreaming up to the answer of the backend, for
\* request i.
ConnStart(i, lines) ==
  /\ connections[i].state = "idle"
  /\ connections' =
       [connections EXCEPT ![i] =
          [IdleConnection EXCEPT !.state = "open", !.model = ConnModel(i),
                                 !.input = lines, !.s = InitialLocals(ConnModel(i))]]
  /\ UNCHANGED requestVars

\* handleStreaming: azureRes.on('data', ...) of request i, for one chunk.
ConnData(i, chunk) ==
  /\ connections[i].state = "open"
  /\ connections' =
       [connections EXCEPT ![i] =
          [@ EXCEPT !.chunks = Append(@, chunk),
                    !.afterOther = connections[Other(i)].chunks # << >>,
                    !.s = DataCallback([StreamState(connections, i) EXCEPT !.returned = FALSE],
                                       chunk)]]
  /\ UNCHANGED requestVars

\* handleStreaming: azureRes.on('end', ...) of request i, once its backend
\* has sent all it had to send.
ConnEnd(i) ==
  /\ connections[i].state = "open"
  /\ NextChunks(connections[i]) = {}
  /\ connections' =
       [connections EXCEPT ![i] =
          [@ EXCEPT !.state = "ended",
                    !.s = [@ EXCEPT !.writableEnded = TRUE,
                                    !.promise = Settle(@, "resolved")]]]
  /\ UNCHANGED requestVars

ConcurrentInit ==
  /\ Fresh
  /\ scenario \in Scenarios
  /\ scenario.clientMayClose
  /\ deployments = DefaultDeployments

ConcurrentNext ==
  \/ \E i \in Conns : \E lines \in ConcurrentInputs : ConnStart(i, lines)
  \/ \E i \in Conns : \E chunk \in NextChunks(connections[i]) : ConnData(i, chunk)
  \/ \E i \in Conns : ConnEnd(i)

ConcurrentSpec == ConcurrentInit /\ [][ConcurrentNext]_vars

\* What a request writes when it is served alone and its data listener
\* receives the given chunks.
RECURSIVE Alone(_, _)
Alone(s, chunks) ==
  IF chunks = << >> THEN s
  ELSE Alone(DataCallback([s EXCEPT !.returned = FALSE], Head(chunks)), Tail(chunks))

\* C26: whatever the interleaving of the data callbacks of two streaming
\* requests served at the same time, the events written to each client are
\* the events the request produces when it is served alone and receives
\* the same chunks from its backend.
C26_NoInterference ==
  \A i \in Conns :
    connections[i].state # "idle" =>
      connections[i].s.events =
        Alone(InitialLocals(connections[i].model), connections[i].chunks).events

\* Both requests are open on different inputs, each received its latest
\* chunk after the other had received data, the first holds the start of a
\* line in its buffer and the second has opened a block.
C26_Witness ==
  /\ \A i \in Conns : connections[i].state = "open" /\ connections[i].afterOther
  /\ connections[1].input # connections[2].input
  /\ connections[1].s.buffer # << >>
  /\ Len(connections[1].chunks) >= 2
  /\ Len(connections[2].s.events) >= 3
  /\ connections[1].s.currentBlockIndex # connections[2].s.currentBlockIndex

====
